---- MODULE Spec2Model ----
(***************************************************************************)
(* Leaderboard fact store (database_manager.py) and its read API (api.py). *)
(* The store is the four relations leaderboards, players, update_batch and *)
(* facts; DatabaseManager writes them through one connection, on SQLite or *)
(* on PostgreSQL, and the read API computes pivoted views from them.  The  *)
(* ingestion run of the scraper (ggpoker_scraper.py) fills the store and   *)
(* the remote viewer (view_remote_database.py) sorts cell texts as numbers.*)
(***************************************************************************)
EXTENDS Integers, Sequences, FiniteSets, TLC

VARIABLES use_postgres,   \* DatabaseManager.use_postgres / api driver
          leaderboards,   \* rows of table leaderboards: [id, name]
          players,        \* rows of table players: [id, name, country]
          update_batch,   \* rows of table update_batch: [id, ts]
          facts,          \* rows of table facts
          seq,            \* last value issued per id sequence
          last,           \* the last call: operation, arguments, outcome
          upserted,       \* history: key -> points of the latest insert_fact
          pc,             \* position of each concurrent caller
          local,          \* locals of each concurrent caller
          run,            \* the ingestion run: its position and locals
          conns,          \* connections of the read API that are still open
          proc            \* the scraper process (main): position, resources

store == <<leaderboards, players, update_batch, facts, seq>>
vars == <<use_postgres, leaderboards, players, update_batch, facts, seq,
          last, upserted, pc, local, run, conns, proc>>

\* Python None / SQL NULL
None == "None"

(***************************************************************************)
(* Bounds and input sets                                                   *)
(***************************************************************************)
LeaderboardNames == {"L1", "L2"}
UnknownLeaderboard == "LX"
PlayerNames == {"A", "B"}
UnknownPlayer == "Z"
Countries == {None, "", "US", "DE"}
PointValues == {5, 10}
MaxBatches == 2
MaxFacts == 2
MaxSeq == 3
Callers == {1, 2}

\* timestamps "%Y-%m-%d %H:%M" as written by the ingestion side
Timestamps ==
    {"2024-01-01 07:00", "2024-01-01 09:00", "2024-01-01 22:00",
     "2024-01-02 07:00"}

\* the timestamps the batches of the write-side specifications carry
BatchTimestamps == {"2024-01-01 07:00", "2024-01-01 09:00"}

(***************************************************************************)
(* Schema: keys and id sequences                                           *)
(***************************************************************************)
\* PRIMARY KEY (leaderboard_id, player_id, update_id) of facts
FactKey(f) == <<f.leaderboard_id, f.player_id, f.update_id>>

\* the foreign keys of a facts row all reference existing rows
ForeignKeysHold(f) ==
    /\ \E l \in leaderboards : l.id = f.leaderboard_id
    /\ \E p \in players : p.id = f.player_id
    /\ \E u \in update_batch : u.id = f.update_id

\* the state right after create_sqlite_tables / create_postgres_tables
EmptyStore ==
    /\ leaderboards = {}
    /\ players = {}
    /\ update_batch = {}
    /\ facts = {}
    /\ seq = [leaderboards |-> 0, players |-> 0, update_batch |-> 0]

(***************************************************************************)
(* SQL statements of DatabaseManager, as functions of the table contents.  *)
(* Each yields [raised, rows, seq, id]: whether the statement raised, the  *)
(* table and the sequence after it, and the id it produced.                *)
(***************************************************************************)
\* SELECT id FROM leaderboards WHERE name = ?
SelectLeaderboard(lbs, name) == {r \in lbs : r.name = name}

\* INSERT INTO leaderboards (name) VALUES (?); name is UNIQUE
InsertLeaderboard(lbs, s, name) ==
    IF \E r \in lbs : r.name = name
    THEN [raised |-> TRUE, rows |-> lbs, seq |-> s, id |-> 0]
    ELSE [raised |-> FALSE,
          rows |-> lbs \cup {[id |-> s + 1, name |-> name]},
          seq |-> s + 1, id |-> s + 1]

\* the same INSERT with ON CONFLICT DO NOTHING: RETURNING yields no row on a
\* conflict and fetchone()[0] raises
UpsertLeaderboardPg_do_nothing(lbs, s, name) ==
    IF \E r \in lbs : r.name = name
    THEN [raised |-> TRUE, rows |-> lbs, seq |-> s + 1, id |-> 0]
    ELSE [raised |-> FALSE,
          rows |-> lbs \cup {[id |-> s + 1, name |-> name]},
          seq |-> s + 1, id |-> s + 1]

\* INSERT .. ON CONFLICT (name) DO UPDATE SET name = EXCLUDED.name
\* RETURNING id; the SERIAL default is evaluated before the conflict is
\* detected, so every execution consumes one sequence value
UpsertLeaderboardPg(lbs, s, name) ==
    IF \E r \in lbs : r.name = name
    THEN [raised |-> FALSE, rows |-> lbs, seq |-> s + 1,
          id |-> (CHOOSE r \in lbs : r.name = name).id]
    ELSE [raised |-> FALSE,
          rows |-> lbs \cup {[id |-> s + 1, name |-> name]},
          seq |-> s + 1, id |-> s + 1]

\* SELECT id, country FROM players WHERE name = ?
SelectPlayer(pls, name) == {r \in pls : r.name = name}

\* Python truthiness of an Optional[str]: None and "" are falsy
Truthy(country) == country # None /\ country # ""

\* UPDATE players SET country = ? WHERE id = ?
UpdatePlayerCountry(pls, player_id, country) ==
    {IF r.id = player_id THEN [r EXCEPT !.country = country] ELSE r
       : r \in pls}

\* INSERT INTO players (name, country) VALUES (?, ?); name is UNIQUE
InsertPlayer(pls, s, name, country) ==
    IF \E r \in pls : r.name = name
    THEN [raised |-> TRUE, rows |-> pls, seq |-> s, id |-> 0]
    ELSE [raised |-> FALSE,
          rows |-> pls \cup
                   {[id |-> s + 1, name |-> name, country |-> country]},
          seq |-> s + 1, id |-> s + 1]

\* COALESCE with its arguments swapped
COALESCE_swapped(a, b) == IF b # None THEN b ELSE a

\* COALESCE(a, b): the first argument that is not NULL
COALESCE(a, b) == IF a # None THEN a ELSE b

\* INSERT .. ON CONFLICT (name) DO UPDATE
\*   SET country = COALESCE(players.country, EXCLUDED.country) RETURNING id
UpsertPlayerPg(pls, s, name, country) ==
    IF \E r \in pls : r.name = name
    THEN LET old == CHOOSE r \in pls : r.name = name
         IN [raised |-> FALSE,
             rows |-> (pls \ {old}) \cup
                      {[old EXCEPT
                          !.country = COALESCE(old.country, country)]},
             seq |-> s + 1, id |-> old.id]
    ELSE [raised |-> FALSE,
          rows |-> pls \cup
                   {[id |-> s + 1, name |-> name, country |-> country]},
          seq |-> s + 1, id |-> s + 1]

\* an insert that reuses the batch of an equal timestamp
InsertUpdateBatch_dedup(ubs, s, ts) ==
    IF \E u \in ubs : u.ts = ts
    THEN [raised |-> FALSE, rows |-> ubs, seq |-> s,
          id |-> (CHOOSE u \in ubs : u.ts = ts).id]
    ELSE [raised |-> FALSE,
          rows |-> ubs \cup {[id |-> s + 1, ts |-> ts]},
          seq |-> s + 1, id |-> s + 1]

\* INSERT INTO update_batch (ts) VALUES (?) [RETURNING id]
InsertUpdateBatch(ubs, s, ts) ==
    [raised |-> FALSE,
     rows |-> ubs \cup {[id |-> s + 1, ts |-> ts]},
     seq |-> s + 1, id |-> s + 1]

\* the same INSERT with ON CONFLICT .. DO NOTHING
UpsertFact_do_nothing(fs, row) ==
    [raised |-> FALSE,
     rows |-> IF \E f \in fs : FactKey(f) = FactKey(row)
              THEN fs ELSE fs \cup {row}]

\* INSERT INTO facts .. ON CONFLICT (leaderboard_id, player_id, update_id)
\* DO UPDATE SET points = excluded.points
UpsertFact(fs, row) ==
    [raised |-> FALSE,
     rows |-> {f \in fs : FactKey(f) # FactKey(row)} \cup {row}]

(***************************************************************************)
(* DatabaseManager operations on its single connection; every operation    *)
(* commits before it returns.                                              *)
(***************************************************************************)
_get_or_create_leaderboard_id_pg(name) ==
    LET r == UpsertLeaderboardPg(leaderboards, seq.leaderboards, name)
    IN /\ seq.leaderboards < MaxSeq
       /\ leaderboards' = r.rows
       /\ seq' = [seq EXCEPT !.leaderboards = r.seq]
       /\ last' = [op |-> "get_or_create_leaderboard_id", name |-> name,
                   raised |-> r.raised, ret |-> r.id]
       /\ UNCHANGED <<use_postgres, players, update_batch, facts,
                      upserted, pc, local>>

get_or_create_leaderboard_id(name) ==
    IF use_postgres
    THEN _get_or_create_leaderboard_id_pg(name)
    ELSE LET row == SelectLeaderboard(leaderboards, name)
             ins == InsertLeaderboard(leaderboards, seq.leaderboards, name)
         IN /\ IF row # {}
               THEN /\ last' = [op |-> "get_or_create_leaderboard_id",
                                name |-> name, raised |-> FALSE,
                                ret |-> (CHOOSE r \in row : TRUE).id]
                    /\ UNCHANGED <<leaderboards, seq>>
               ELSE /\ leaderboards' = ins.rows
                    /\ seq' = [seq EXCEPT !.leaderboards = ins.seq]
                    /\ last' = [op |-> "get_or_create_leaderboard_id",
                                name |-> name, raised |-> ins.raised,
                                ret |-> ins.id]
            /\ UNCHANGED <<use_postgres, players, update_batch, facts,
                           upserted, pc, local>>

_get_or_create_player_id_pg(name, country) ==
    LET r == UpsertPlayerPg(players, seq.players, name, country)
    IN /\ seq.players < MaxSeq
       /\ players' = r.rows
       /\ seq' = [seq EXCEPT !.players = r.seq]
       /\ last' = [op |-> "get_or_create_player_id", name |-> name,
                   country |-> country, raised |-> r.raised, ret |-> r.id]
       /\ UNCHANGED <<use_postgres, leaderboards, update_batch, facts,
                      upserted, pc, local>>

get_or_create_player_id(name, country) ==
    IF use_postgres
    THEN _get_or_create_player_id_pg(name, country)
    ELSE LET row == SelectPlayer(players, name)
             ins == InsertPlayer(players, seq.players, name, country)
         IN /\ IF row # {}
               THEN LET old == CHOOSE r \in row : TRUE
                    IN /\ players' =
                            IF (~Truthy(old.country)) /\ Truthy(country)
                            THEN UpdatePlayerCountry(players, old.id, country)
                            ELSE players
                       /\ last' = [op |-> "get_or_create_player_id",
                                   name |-> name, country |-> country,
                                   raised |-> FALSE, ret |-> old.id]
                       /\ UNCHANGED seq
               ELSE /\ players' = ins.rows
                    /\ seq' = [seq EXCEPT !.players = ins.seq]
                    /\ last' = [op |-> "get_or_create_player_id",
                                name |-> name, country |-> country,
                                raised |-> ins.raised, ret |-> ins.id]
            /\ UNCHANGED <<use_postgres, leaderboards, update_batch, facts,
                           upserted, pc, local>>

\* both paths execute the same INSERT and return the new row's id
create_update_batch(ts) ==
    LET r == InsertUpdateBatch(update_batch, seq.update_batch, ts)
    IN /\ Cardinality(update_batch) < MaxBatches
       /\ update_batch' = r.rows
       /\ seq' = [seq EXCEPT !.update_batch = r.seq]
       /\ last' = [op |-> "create_update_batch", ts |-> ts,
                   raised |-> r.raised, ret |-> r.id]
       /\ UNCHANGED <<use_postgres, leaderboards, players, facts,
                      upserted, pc, local>>

\* both paths execute the same upsert; callers pass ids the store returned
insert_fact(leaderboard_id, update_id, player_id, points) ==
    LET row == [leaderboard_id |-> leaderboard_id, update_id |-> update_id,
                player_id |-> player_id, points |-> points]
        r == UpsertFact(facts, row)
        key == FactKey(row)
    IN /\ ForeignKeysHold(row)
       /\ (\E f \in facts : FactKey(f) = key)
            \/ Cardinality(facts) < MaxFacts
       /\ facts' = r.rows
       /\ last' = [op |-> "insert_fact", key |-> key, points |-> points,
                   conflict |-> \E f \in facts : FactKey(f) = key,
                   raised |-> r.raised, ret |-> None]
       /\ upserted' = IF r.raised THEN upserted
                      ELSE [k \in DOMAIN upserted \cup {key} |->
                              IF k = key THEN points ELSE upserted[k]]
       /\ UNCHANGED <<use_postgres, leaderboards, players, update_batch,
                      seq, pc, local>>

\* the same DELETE on a connection that does not enforce foreign keys
DeleteLeaderboard_no_cascade(lbs, fs, name) ==
    [leaderboards |-> {l \in lbs : l.name # name}, facts |-> fs]

\* DELETE FROM leaderboards WHERE name = ? on the DatabaseManager
\* connection: facts.leaderboard_id REFERENCES leaderboards(id) ON DELETE
\* CASCADE, enforced on SQLite by PRAGMA foreign_keys = ON
DeleteLeaderboard(lbs, fs, name) ==
    LET gone == {l.id : l \in {r \in lbs : r.name = name}}
    IN [leaderboards |-> {l \in lbs : l.name # name},
        facts |-> {f \in fs : f.leaderboard_id \notin gone}]

delete_leaderboard(name) ==
    LET r == DeleteLeaderboard(leaderboards, facts, name)
    IN /\ leaderboards' = r.leaderboards
       /\ facts' = r.facts
       /\ last' = [op |-> "delete_leaderboard", name |-> name,
                   raised |-> FALSE,
                   rowcount |-> Cardinality(leaderboards)
                                   - Cardinality(r.leaderboards),
                   cascaded |-> Cardinality(facts) - Cardinality(r.facts)]
       /\ upserted' = [k \in {FactKey(f) : f \in r.facts} |-> upserted[k]]
       /\ UNCHANGED <<use_postgres, players, update_batch, seq, pc, local>>

(***************************************************************************)
(* Helpers of the read API (api.py)                                        *)
(***************************************************************************)
Min(a, b) == IF a <= b THEN a ELSE b
Max(a, b) == IF a >= b THEN a ELSE b

\* the order of player names under Python's sorted()
NameOrder == <<"A", "B", "Z">>
NameIndex(n) == CHOOSE i \in 1..Len(NameOrder) : NameOrder[i] = n

\* sorted({name ...}): ascending list of a set of names
RECURSIVE sorted(_)
sorted(S) ==
    IF S = {} THEN <<>>
    ELSE LET m == CHOOSE x \in S : \A y \in S : NameIndex(x) <= NameIndex(y)
         IN <<m>> \o sorted(S \ {m})

\* list(reversed(xs))
reversed(xs) == [i \in 1..Len(xs) |-> xs[Len(xs) + 1 - i]]

\* xs[:n] with Python's meaning of a negative n
Slice(xs, n) ==
    IF n >= 0 THEN SubSeq(xs, 1, Min(n, Len(xs)))
    ELSE SubSeq(xs, 1, Max(0, Len(xs) + n))

\* ORDER BY ub.id DESC over a set of update_batch rows
RECURSIVE OrderByIdDesc(_)
OrderByIdDesc(S) ==
    IF S = {} THEN <<>>
    ELSE LET m == CHOOSE u \in S : \A v \in S : v.id <= u.id
         IN <<m>> \o OrderByIdDesc(S \ {m})

\* ORDER BY ub.id ASC over a set of update_batch rows
OrderByIdAsc(S) == reversed(OrderByIdDesc(S))

\* SELECT ub.id, ub.ts FROM update_batch ub JOIN facts f ON f.update_id = ub.id
\* WHERE f.leaderboard_id = ? GROUP BY ub.id, ub.ts
UpdatesOfLeaderboard(lb_id) ==
    {u \in update_batch :
       \E f \in facts : f.update_id = u.id /\ f.leaderboard_id = lb_id}

\* the same query with ORDER BY ub.id ASC: the oldest batches
LatestUpdates_oldest(lb_id, last_columns) ==
    LET all == reversed(OrderByIdDesc(UpdatesOfLeaderboard(lb_id)))
    IN SubSeq(all, 1, Min(last_columns, Len(all)))

\* .. ORDER BY ub.id DESC LIMIT ?
LatestUpdates(lb_id, last_columns) ==
    LET all == OrderByIdDesc(UpdatesOfLeaderboard(lb_id))
    IN SubSeq(all, 1, Min(last_columns, Len(all)))

\* the timestamp of the batch with the given id
TsOfUpdate(update_id) == (CHOOSE u \in update_batch : u.id = update_id).ts

\* the name of the player with the given id
NameOfPlayer(player_id) == (CHOOSE p \in players : p.id = player_id).name

\* SELECT pl.name, ub.ts, f.points FROM facts f JOIN players pl JOIN
\* update_batch ub WHERE f.leaderboard_id = ? AND f.update_id IN (..)
AllPoints(lb_id, update_ids) ==
    {f \in facts :
       /\ f.leaderboard_id = lb_id
       /\ \E i \in 1..Len(update_ids) : update_ids[i] = f.update_id
       /\ \E p \in players : p.id = f.player_id}

\* The dictionaries points_map can end up as.  It is keyed by timestamp text
\* and filled in cursor order, which the query leaves unspecified: a cell
\* holds the points of whichever matching row came last, or 0 without one.
PointsMaps(all_points, names, ts_headers) ==
    LET tss == {ts_headers[i] : i \in 1..Len(ts_headers)}
        rowsFor(n, ts) ==
            {f \in all_points :
               NameOfPlayer(f.player_id) = n /\ TsOfUpdate(f.update_id) = ts}
        cand(n, ts) ==
            IF rowsFor(n, ts) = {} THEN {0}
            ELSE {f.points : f \in rowsFor(n, ts)}
        vals == {0} \cup {f.points : f \in all_points}
        nameSet == {names[i] : i \in 1..Len(names)}
    IN {pm \in [nameSet -> [tss -> vals]] :
          \A n \in nameSet, ts \in tss : pm[n][ts] \in cand(n, ts)}

\* row = [name] + [points_map[name][ts] for ts in ts_headers], per player
BuildRows(points_map, names, ts_headers) ==
    [i \in 1..Len(names) |->
       [player |-> names[i],
        values |-> [j \in 1..Len(ts_headers) |->
                      points_map[names[i]][ts_headers[j]]]]]

\* the sort key r[-1]
LastValue(r) == r.values[Len(r.values)]

\* the sort left out
SortByLastDesc_unsorted(rows) == rows

\* rows.sort(key=lambda r: r[-1], reverse=True): stable, descending
RECURSIVE SortByLastDesc(_)
SortByLastDesc(rows) ==
    IF rows = <<>> THEN <<>>
    ELSE LET i == CHOOSE i \in 1..Len(rows) :
                    /\ \A j \in 1..Len(rows) :
                          LastValue(rows[j]) <= LastValue(rows[i])
                    /\ \A j \in 1..(i - 1) :
                          LastValue(rows[j]) < LastValue(rows[i])
             rest == [j \in 1..(Len(rows) - 1) |->
                        IF j < i THEN rows[j] ELSE rows[j + 1]]
         IN <<rows[i]>> \o SortByLastDesc(rest)

\* rows = rows[:limit]; rows.sort(..): cut before ranking
RankAndTruncate_cut_first(rows, limit) == SortByLastDesc(Slice(rows, limit))

\* rows.sort(..); rows = rows[:limit]
RankAndTruncate(rows, limit) == Slice(SortByLastDesc(rows), limit)

\* a not-found answer that still carries the player header
TableNotFound_header == [columns |-> <<"player">>, rows |-> <<>>]

\* the answer for a leaderboard name that is not in the store
TableNotFound == [columns |-> <<>>, rows |-> <<>>]

\* The outcomes of fetch_table_data: the locals update_ids and rows (as
\* built, before ranking) and the returned payload.  The PostgreSQL branch
\* runs the same queries and converts each NUMERIC to the float of the same
\* number.
fetch_table_data_outcomes(leaderboard, limit, last_columns) ==
    LET row == SelectLeaderboard(leaderboards, leaderboard)
        lb_id == (CHOOSE r \in row : TRUE).id
        updates == LatestUpdates(lb_id, last_columns)
        update_ids == reversed([i \in 1..Len(updates) |-> updates[i].id])
        ts_headers == reversed([i \in 1..Len(updates) |-> updates[i].ts])
        all_points == AllPoints(lb_id, update_ids)
        names == sorted({NameOfPlayer(f.player_id) : f \in all_points})
    IN IF row = {}
       THEN {[update_ids |-> <<>>, built |-> <<>>, result |-> TableNotFound]}
       ELSE IF updates = <<>>
       THEN {[update_ids |-> <<>>, built |-> <<>>,
              result |-> [columns |-> <<"player">>, rows |-> <<>>]]}
       ELSE IF all_points = {}
       THEN {[update_ids |-> update_ids, built |-> <<>>,
              result |-> [columns |-> <<"player">> \o ts_headers,
                          rows |-> <<>>]]}
       ELSE {[update_ids |-> update_ids,
              built |-> BuildRows(pm, names, ts_headers),
              result |-> [columns |-> <<"player">> \o ts_headers,
                          rows |-> RankAndTruncate(
                                     BuildRows(pm, names, ts_headers),
                                     limit)]]
               : pm \in PointsMaps(all_points, names, ts_headers)}

fetch_table_data(leaderboard, limit, last_columns) ==
    /\ \E o \in fetch_table_data_outcomes(leaderboard, limit, last_columns) :
          last' = [op |-> "fetch_table_data", leaderboard |-> leaderboard,
                   limit |-> limit, last_columns |-> last_columns,
                   raised |-> FALSE, update_ids |-> o.update_ids,
                   built |-> o.built, result |-> o.result]
    /\ UNCHANGED <<use_postgres, leaderboards, players, update_batch, facts,
                   seq, upserted, pc, local>>

\* the answer of fetch_player_data for a leaderboard not in the store, or
\* without batches
PlayerNotFound(player_name, country) ==
    [columns |-> <<"player">>,
     rows |-> <<[player |-> player_name, values |-> <<>>]>>,
     country |-> country]

\* SELECT country FROM players WHERE name = ?; None without a row
CountryOf(player_name) ==
    LET crow == SelectPlayer(players, player_name)
    IN IF crow = {} THEN None ELSE (CHOOSE r \in crow : TRUE).country

\* the same lookup without the leaderboard in its WHERE clause
PointsByUpdate_any_leaderboard(lb_id, player_name, uid) ==
    LET fs == {f \in facts :
                 /\ f.update_id = uid
                 /\ \E p \in players :
                       p.id = f.player_id /\ p.name = player_name}
    IN IF fs = {} THEN 0
       ELSE (CHOOSE f \in fs : \A g \in fs : g.points <= f.points).points

\* pts_by_update[uid]: the player's points in that batch, 0 without a fact
PointsByUpdate(lb_id, player_name, uid) ==
    LET fs == {f \in facts :
                 /\ f.leaderboard_id = lb_id
                 /\ f.update_id = uid
                 /\ \E p \in players :
                       p.id = f.player_id /\ p.name = player_name}
    IN IF fs = {} THEN 0 ELSE (CHOOSE f \in fs : TRUE).points

\* The payload of fetch_player_data; both branches run the same queries.
fetch_player_data_result(leaderboard, player_name) ==
    LET row == SelectLeaderboard(leaderboards, leaderboard)
        lb_id == (CHOOSE r \in row : TRUE).id
        country == CountryOf(player_name)
        updates == OrderByIdAsc(UpdatesOfLeaderboard(lb_id))
        ts_headers == [i \in 1..Len(updates) |-> updates[i].ts]
        points_row == [i \in 1..Len(updates) |->
                         PointsByUpdate(lb_id, player_name, updates[i].id)]
    IN IF row = {} THEN PlayerNotFound(player_name, None)
       ELSE IF updates = <<>> THEN PlayerNotFound(player_name, country)
       ELSE [columns |-> <<"player">> \o ts_headers,
             rows |-> <<[player |-> player_name, values |-> points_row]>>,
             country |-> country]

\* the same read with the player resolved by get-or-create
fetch_player_data_get_or_create(leaderboard, player_name) ==
    LET ins == InsertPlayer(players, seq.players, player_name, None)
    IN /\ last' = [op |-> "fetch_player_data", leaderboard |-> leaderboard,
                   player_name |-> player_name, raised |-> FALSE,
                   result |->
                      fetch_player_data_result(leaderboard, player_name)]
       /\ players' = ins.rows
       /\ seq' = [seq EXCEPT !.players = ins.seq]
       /\ UNCHANGED <<use_postgres, leaderboards, update_batch, facts,
                      upserted, pc, local>>

fetch_player_data(leaderboard, player_name) ==
    /\ last' = [op |-> "fetch_player_data", leaderboard |-> leaderboard,
                player_name |-> player_name, raised |-> FALSE,
                result |-> fetch_player_data_result(leaderboard, player_name)]
    /\ UNCHANGED <<use_postgres, leaderboards, players, update_batch, facts,
                   seq, upserted, pc, local>>

\* date(ub.ts) / date_trunc('day', ub.ts): the calendar day of a timestamp
date(ts) ==
    CASE ts = "2024-01-01 07:00" -> "2024-01-01"
      [] ts = "2024-01-01 09:00" -> "2024-01-01"
      [] ts = "2024-01-01 22:00" -> "2024-01-01"
      [] ts = "2024-01-02 07:00" -> "2024-01-02"

\* time(ub.ts) / ub.ts::time: the time of day, as minutes since midnight
time(ts) ==
    CASE ts = "2024-01-01 07:00" -> 7 * 60
      [] ts = "2024-01-01 09:00" -> 9 * 60
      [] ts = "2024-01-01 22:00" -> 22 * 60
      [] ts = "2024-01-02 07:00" -> 7 * 60

\* the cutoff written into the query: '21:00:00' on SQLite, TIME '8:00:00'
\* on PostgreSQL
DailyCutoff == IF use_postgres THEN 8 * 60 ELSE 21 * 60

\* WITH daily AS (SELECT date(ub.ts) AS d, MAX(ub.id) AS update_id ..
\* WHERE f.leaderboard_id = ? AND time(ub.ts) < cutoff GROUP BY date(ub.ts))
Daily(lb_id) ==
    LET early == {u \in UpdatesOfLeaderboard(lb_id) : time(u.ts) < DailyCutoff}
    IN {u.id : u \in {v \in early :
                        \A w \in early : date(w.ts) = date(v.ts) => w.id <= v.id}}

\* SUM(f.points) over a set of facts rows
RECURSIVE SumPoints(_)
SumPoints(fs) ==
    IF fs = {} THEN 0
    ELSE LET f == CHOOSE x \in fs : TRUE
         IN f.points + SumPoints(fs \ {f})

\* the same aggregate without the outer WHERE f.leaderboard_id = ?
Totals_any_leaderboard(lb_id) ==
    LET joined == {f \in facts :
                     /\ f.update_id \in Daily(lb_id)
                     /\ \E p \in players : p.id = f.player_id}
        names == {NameOfPlayer(f.player_id) : f \in joined}
    IN [n \in names |->
          SumPoints({f \in joined : NameOfPlayer(f.player_id) = n})]

\* SELECT pl.name, SUM(f.points) AS total FROM facts f JOIN daily d ..
\* JOIN players pl .. WHERE f.leaderboard_id = ? GROUP BY pl.name
Totals(lb_id) ==
    LET joined == {f \in facts :
                     /\ f.leaderboard_id = lb_id
                     /\ f.update_id \in Daily(lb_id)
                     /\ \E p \in players : p.id = f.player_id}
        names == {NameOfPlayer(f.player_id) : f \in joined}
    IN [n \in names |->
          SumPoints({f \in joined : NameOfPlayer(f.player_id) = n})]

\* ORDER BY total DESC: every listing of the names in which totals do not
\* increase; the order among equal totals is left to the database
OrderByTotalDesc(totals) ==
    LET names == DOMAIN totals
        n == Cardinality(names)
    IN {s \in [1..n -> names] :
          /\ \A i, j \in 1..n : i # j => s[i] # s[j]
          /\ \A i, j \in 1..n : i < j => totals[s[i]] >= totals[s[j]]}

\* The lists fetch_top_players can return (.. LIMIT ?).
fetch_top_players_outcomes(leaderboard, limit) ==
    LET row == SelectLeaderboard(leaderboards, leaderboard)
        lb_id == (CHOOSE r \in row : TRUE).id
    IN IF row = {} THEN {<<>>}
       ELSE {SubSeq(s, 1, Min(limit, Len(s))) :
               s \in OrderByTotalDesc(Totals(lb_id))}

fetch_top_players(leaderboard, limit) ==
    /\ \E o \in fetch_top_players_outcomes(leaderboard, limit) :
          last' = [op |-> "fetch_top_players", leaderboard |-> leaderboard,
                   limit |-> limit, raised |-> FALSE, result |-> o]
    /\ UNCHANGED <<use_postgres, leaderboards, players, update_batch, facts,
                   seq, upserted, pc, local>>

(***************************************************************************)
(* list_tables, failing reads and the connections of the read API.  Every  *)
(* read opens its own connection in a with-statement.                      *)
(***************************************************************************)
\* the characters of a leaderboard name
NameText(n) ==
    CASE n = "L1" -> <<"L", "1">>
      [] n = "L2" -> <<"L", "2">>
      [] n = "LX" -> <<"L", "X">>

\* the prefixes asked for; they hold no LIKE wildcard
Prefixes == {<<"L">>, <<"l">>, <<"L", "2">>, <<"P", "L", "O">>}

\* LIKE compares ASCII letters without case on SQLite, with case on
\* PostgreSQL
Fold(c) == IF (~use_postgres) /\ c = "l" THEN "L" ELSE c

\* name LIKE prefix || '%'
LIKE(text, prefix) ==
    /\ Len(prefix) <= Len(text)
    /\ \A i \in 1..Len(prefix) : Fold(text[i]) = Fold(prefix[i])

\* ORDER BY name
LeaderboardOrder == <<"L1", "L2", "LX">>
RECURSIVE OrderByName(_)
OrderByName(S) ==
    IF S = {} THEN <<>>
    ELSE LET ix(n) == CHOOSE i \in 1..Len(LeaderboardOrder) :
                         LeaderboardOrder[i] = n
             m == CHOOSE x \in S : \A y \in S : ix(x) <= ix(y)
         IN <<m>> \o OrderByName(S \ {m})

\* SELECT name FROM leaderboards WHERE name LIKE ? ORDER BY name
list_tables(prefix) ==
    /\ last' = [op |-> "list_tables", prefix |-> prefix, raised |-> FALSE,
                result |-> OrderByName(
                             {r.name : r \in {x \in leaderboards :
                                LIKE(NameText(x.name), prefix)}})]
    /\ UNCHANGED <<use_postgres, leaderboards, players, update_batch, facts,
                   seq, upserted, pc, local>>

\* the operations of the read API
ApiOps ==
    {"list_tables", "fetch_table_data", "fetch_player_data",
     "fetch_top_players"}

\* A read fails part-way: one of its cursor.execute calls raises (the
\* database is locked or unreachable, or the statement is rejected).  The
\* statements of the reads are SELECTs, nothing is pending.
read_raises(op) ==
    /\ last' = [op |-> op, raised |-> TRUE]
    /\ UNCHANGED <<use_postgres, leaderboards, players, update_batch, facts,
                   seq, upserted, pc, local>>

MaxConns == 2

\* with open_connection() as conn: the block is left by return or by an
\* exception.  Leaving it ends the transaction of a sqlite3 or psycopg2
\* connection and does not close it, and no read calls conn.close(): the
\* connection is closed when the interpreter finalizes the object, which
\* happens at once or at some later time.
open_connection ==
    \E left_open \in BOOLEAN :
       /\ left_open => conns < MaxConns
       /\ conns' = IF left_open THEN conns + 1 ELSE conns

\* the interpreter finalizes a connection object no read refers to
finalize ==
    /\ conns > 0
    /\ conns' = conns - 1
    /\ UNCHANGED <<use_postgres, store, last, upserted, pc, local, run, proc>>

(***************************************************************************)
(* Points text.  A text is a sequence of one-character strings.            *)
(***************************************************************************)
Digits == <<"0", "1", "2", "3", "4", "5", "6", "7", "8", "9">>
IsDigit(c) == \E d \in 1..10 : Digits[d] = c
DigitValue(c) == (CHOOSE d \in 1..10 : Digits[d] = c) - 1

\* the number a sequence of digits writes; 0 for the empty sequence
RECURSIVE IntOf(_)
IntOf(ds) ==
    IF ds = <<>> THEN 0
    ELSE 10 * IntOf(SubSeq(ds, 1, Len(ds) - 1)) + DigitValue(ds[Len(ds)])

\* the outcome of a conversion that found no number
Unparseable == [num |-> 0, den |-> 0]

\* The decimal a text writes, as num/den: an optional '-', then digits with
\* at most one '.', at least one digit; any other text is no number.
DecimalParse(text) ==
    LET neg == Len(text) > 0 /\ text[1] = "-"
        body == IF neg THEN Tail(text) ELSE text
        dots == {i \in 1..Len(body) : body[i] = "."}
        ds == SelectSeq(body, IsDigit)
        valid == /\ Cardinality(dots) <= 1
                 /\ \A i \in 1..Len(body) : body[i] = "." \/ IsDigit(body[i])
                 /\ Len(ds) >= 1
        frac == IF dots = {} THEN 0
                ELSE Len(body) - (CHOOSE i \in dots : TRUE)
    IN IF ~valid THEN Unparseable
       ELSE [num |-> (IF neg THEN -1 ELSE 1) * IntOf(ds), den |-> 10 ^ frac]

\* the characters the numeric parser keeps
KeepNumeric(c) == IsDigit(c) \/ c = "." \/ c = "-"

\* parseNumeric: strip every character that is not a digit, '.' or '-';
\* nothing left is unparseable; otherwise the decimal parse of the rest
parseNumeric(text) ==
    LET cleaned == SelectSeq(text, KeepNumeric)
    IN IF cleaned = <<>> THEN Unparseable ELSE DecimalParse(cleaned)

\* REPLACE(x, ',', ''): the text without its commas
NotComma(c) == c # ","
REPLACE(text) == SelectSeq(text, NotComma)

\* CAST(x AS REAL): the number the text writes; PostgreSQL raises "invalid
\* input syntax for type real" on any other text (Unparseable)
CAST_AS_REAL(text) == DecimalParse(text)

\* The sort key RemoteDatabaseViewer.get_table_data orders a cell text by:
\* ORDER BY CAST(REPLACE("col", ',', '') AS REAL) DESC
get_table_data(text) ==
    /\ last.op = "cell"
    /\ last.text = text
    /\ last' = [op |-> "get_table_data", text |-> text,
                key |-> CAST_AS_REAL(REPLACE(text))]
    /\ UNCHANGED <<use_postgres, store, upserted, pc, local, run, conns,
                   proc>>

(***************************************************************************)
(* The ingestion run, GGPokerScraper.extract_player_ranking_data: one list *)
(* of scraped rows for one leaderboard.  Every DatabaseManager call is a   *)
(* step of its own, because every call commits before it returns and       *)
(* readers on other connections run between the calls.                     *)
(***************************************************************************)
\* no ingestion run has started
NoRun ==
    [pc |-> "idle", leaderboard_id |-> 0, ts |-> None, update_id |-> 0,
     player_id |-> 0, rows |-> <<>>, i |-> 0, outcome |-> <<>>,
     resolved |-> 0, opened |-> 0, reported |-> None]

\* the scraped rows: name and points text of a table row
ScrapedRows ==
    {[name |-> "A", points |-> <<"5">>],
     [name |-> "B", points |-> <<"1", "0">>],
     [name |-> "B", points |-> <<"N">>],
     [name |-> "", points |-> <<"5">>],
     [name |-> "A", points |-> <<>>]}
MaxRows == 2
RowLists == UNION {[1..n -> ScrapedRows] : n \in 1..MaxRows}

\* if player_name and points: both texts are non-empty
HasNameAndPoints(row) == row.name # "" /\ row.points # <<>>

\* the methods the run calls on its DatabaseManager
get_or_create_leaderboard_table(name) == get_or_create_leaderboard_id(name)
add_timestamp_column(ts) == create_update_batch(ts)
update_player_points_player(name) == get_or_create_player_id(name, None)
update_player_points_fact(leaderboard_id, update_id, player_id, points) ==
    insert_fact(leaderboard_id, update_id, player_id, points)
\* nothing is pending when they run: every call above has committed
commit_changes == UNCHANGED <<store, last, upserted>>
rollback_changes == UNCHANGED <<store, last, upserted>>

\* the exception of a row reaches the handler of the batch
RowFailed_abort(r, what) ==
    [r EXCEPT !.outcome = Append(@, what), !.pc = "rollback"]

\* except Exception as e: print(..); continue
RowFailed(r, what) ==
    [r EXCEPT !.outcome = Append(@, what), !.i = @ + 1, !.pc = "rows"]

\* the leaderboard is resolved, once, for the whole list
ingest_start(name, ts, rows) ==
    /\ run.pc = "idle"
    /\ get_or_create_leaderboard_table(name)
    /\ run' = [NoRun EXCEPT !.pc = "batch", !.leaderboard_id = last'.ret,
                            !.ts = ts, !.rows = rows, !.resolved = 1]

\* one batch is opened for the whole list
ingest_open_batch ==
    /\ run.pc = "batch"
    /\ add_timestamp_column(run.ts)
    /\ run' = [run EXCEPT !.pc = "rows", !.update_id = last'.ret, !.i = 1,
                          !.opened = @ + 1]

\* a row without a name or without points: a warning, no call
ingest_row_missing ==
    /\ run.pc = "rows"
    /\ run.i <= Len(run.rows)
    /\ ~HasNameAndPoints(run.rows[run.i])
    /\ run' = [run EXCEPT !.outcome = Append(@, "missing"), !.i = @ + 1]
    /\ UNCHANGED <<use_postgres, store, last, upserted, pc, local>>

\* update_player_points raises on points text that is no number
ingest_row_unparseable ==
    /\ run.pc = "rows"
    /\ run.i <= Len(run.rows)
    /\ HasNameAndPoints(run.rows[run.i])
    /\ parseNumeric(run.rows[run.i].points) = Unparseable
    /\ run' = RowFailed(run, "unparseable")
    /\ UNCHANGED <<use_postgres, store, last, upserted, pc, local>>

\* update_player_points, first call: the player of the row is resolved
ingest_row_player ==
    /\ run.pc = "rows"
    /\ run.i <= Len(run.rows)
    /\ HasNameAndPoints(run.rows[run.i])
    /\ parseNumeric(run.rows[run.i].points) # Unparseable
    /\ update_player_points_player(run.rows[run.i].name)
    /\ run' = [run EXCEPT !.pc = "fact", !.player_id = last'.ret]

\* update_player_points, second call: the fact of the row is upserted
ingest_row_fact ==
    LET v == parseNumeric(run.rows[run.i].points)
    IN /\ run.pc = "fact"
       /\ update_player_points_fact(run.leaderboard_id, run.update_id,
                                    run.player_id, v.num \div v.den)
       /\ run' = [run EXCEPT !.outcome = Append(@, "stored"), !.i = @ + 1,
                             !.pc = "rows"]

\* a call of update_player_points raises a storage error (a locked or
\* unreachable database); the store is as the last commit left it
ingest_row_storage_error ==
    /\ \/ run.pc = "fact"
       \/ /\ run.pc = "rows"
          /\ run.i <= Len(run.rows)
          /\ HasNameAndPoints(run.rows[run.i])
          /\ parseNumeric(run.rows[run.i].points) # Unparseable
    /\ run' = RowFailed(run, "failed")
    /\ UNCHANGED <<use_postgres, store, last, upserted, pc, local>>

\* after the last row: commit_changes() and the summary line, which prints
\* len(tr_elements) as the number of entries processed
ingest_commit ==
    /\ run.pc = "rows"
    /\ run.i > Len(run.rows)
    /\ commit_changes
    /\ run' = [run EXCEPT !.pc = "done", !.reported = Len(run.rows)]
    /\ UNCHANGED <<use_postgres, pc, local>>

\* commit_changes() raises: the handler of the batch takes over
ingest_commit_fails ==
    /\ run.pc = "rows"
    /\ run.i > Len(run.rows)
    /\ run' = [run EXCEPT !.pc = "rollback"]
    /\ UNCHANGED <<use_postgres, store, last, upserted, pc, local>>

\* except Exception as batch_err: rollback_changes()
ingest_rollback ==
    /\ run.pc = "rollback"
    /\ rollback_changes
    /\ run' = [run EXCEPT !.pc = "failed"]
    /\ UNCHANGED <<use_postgres, pc, local>>

(***************************************************************************)
(* The scraper process (ggpoker_scraper.py, main).  run_once constructs a  *)
(* GGPokerScraper (the browser first, then the DatabaseManager), runs the  *)
(* scraping session and closes the scraper in its finally block.  main     *)
(* calls run_once once, or in a loop with a sleep after every call.        *)
(***************************************************************************)
\* --interval / INTERVAL: seconds between runs, 0 runs once
Intervals == {0, 60}
MaxRuns == 2

\* main has not been entered
NoProc ==
    [pc |-> "idle", interval |-> 0, runs |-> 0, scraper |-> FALSE,
     browser |-> "none", db |-> "none", success |-> None,
     interrupted |-> FALSE]

\* the rows one session scrapes
SessionRows == {<<r>> : r \in ScrapedRows}

\* if args.interval and args.interval > 0: .. time.sleep(..) else: return
AfterRun(interval) == IF interval > 0 THEN "sleeping" ELSE "exit"

\* main(): the arguments are parsed
main(interval) ==
    /\ proc.pc = "idle"
    /\ proc' = [proc EXCEPT !.pc = "loop", !.interval = interval]
    /\ UNCHANGED <<use_postgres, store, last, upserted, pc, local, run,
                   conns>>

\* run_once(args.headless): scraper = None, and the try block is entered.
\* The fields browser and db are those of the run that starts; what an
\* earlier run left behind is no longer referenced by anything.
run_once(headless_flag) ==
    /\ proc.pc = "loop"
    /\ proc.runs < MaxRuns
    /\ proc' = [proc EXCEPT !.pc = "setup_driver", !.runs = @ + 1,
                            !.scraper = FALSE, !.browser = "none",
                            !.db = "none", !.success = None]
    /\ run' = NoRun
    /\ UNCHANGED <<use_postgres, store, last, upserted, pc, local, conns>>

\* GGPokerScraper.__init__, self.setup_driver(): the driver binary or
\* webdriver.Chrome fails, or the browser starts and the script call that
\* follows fails (the handler re-raises), or the browser is ready
setup_driver ==
    /\ proc.pc = "setup_driver"
    /\ \E o \in {"ok", "no_browser", "script_raises"} :
          proc' = CASE o = "ok" ->
                         [proc EXCEPT !.browser = "running",
                                      !.pc = "db_manager"]
                    [] o = "no_browser" -> [proc EXCEPT !.pc = "except"]
                    [] o = "script_raises" ->
                         [proc EXCEPT !.browser = "running",
                                      !.pc = "except"]
    /\ UNCHANGED <<use_postgres, store, last, upserted, pc, local, run,
                   conns>>

\* GGPokerScraper.__init__, self.db_manager = DatabaseManager(): connect
\* fails, or the connection is open and creating the tables fails, or the
\* constructor returns and run_once binds scraper
DatabaseManager ==
    /\ proc.pc = "db_manager"
    /\ \E o \in {"ok", "connect_raises", "tables_raise"} :
          proc' = CASE o = "ok" ->
                         [proc EXCEPT !.db = "open", !.scraper = TRUE,
                                      !.pc = "session"]
                    [] o = "connect_raises" -> [proc EXCEPT !.pc = "except"]
                    [] o = "tables_raise" ->
                         [proc EXCEPT !.db = "open", !.pc = "except"]
    /\ UNCHANGED <<use_postgres, store, last, upserted, pc, local, run,
                   conns>>

\* run_scraping_session returns False: a step before the extraction failed
session_fails ==
    /\ proc.pc = "session"
    /\ run.pc = "idle"
    /\ proc' = [proc EXCEPT !.success = "False", !.pc = "finally"]
    /\ UNCHANGED <<use_postgres, store, last, upserted, pc, local, run,
                   conns>>

\* run_scraping_session returns True after the extraction, whether the
\* batch was committed or rolled back
session_returns ==
    /\ proc.pc = "session"
    /\ run.pc \in {"done", "failed"}
    /\ proc' = [proc EXCEPT !.success = "True", !.pc = "finally"]
    /\ UNCHANGED <<use_postgres, store, last, upserted, pc, local, run,
                   conns>>

\* Ctrl+C during the session: KeyboardInterrupt is no Exception, it passes
\* the handler of the session and is re-raised by run_once
session_interrupted ==
    /\ proc.pc = "session"
    /\ proc' = [proc EXCEPT !.interrupted = TRUE, !.pc = "finally"]
    /\ UNCHANGED <<use_postgres, store, last, upserted, pc, local, run,
                   conns>>

\* except Exception as e: print(..); return False
except_Exception ==
    /\ proc.pc = "except"
    /\ proc' = [proc EXCEPT !.success = "False", !.pc = "finally"]
    /\ UNCHANGED <<use_postgres, store, last, upserted, pc, local, run,
                   conns>>

\* GGPokerScraper.close: self.driver.quit(), then self.db_manager.close();
\* an exception of quit() leaves close before the connection is closed
close(quit_ok) ==
    IF quit_ok
    THEN [proc EXCEPT !.browser = "quit", !.db = "closed",
                      !.pc = IF proc.interrupted THEN "interrupted"
                             ELSE "returned"]
    ELSE [proc EXCEPT !.pc = "crashed"]

\* finally: if scraper: scraper.close(); then run_once returns or raises
finally ==
    /\ proc.pc = "finally"
    /\ IF proc.scraper
       THEN \E quit_ok \in BOOLEAN : proc' = close(quit_ok)
       ELSE proc' = [proc EXCEPT !.pc = "returned"]
    /\ UNCHANGED <<use_postgres, store, last, upserted, pc, local, run,
                   conns>>

\* after run_once: time.sleep(args.interval) in the loop, else main returns
sleep ==
    /\ proc.pc = "returned"
    /\ proc' = [proc EXCEPT !.pc = AfterRun(proc.interval)]
    /\ UNCHANGED <<use_postgres, store, last, upserted, pc, local, run,
                   conns>>

\* the sleep is over: while True
wake ==
    /\ proc.pc = "sleeping"
    /\ proc' = [proc EXCEPT !.pc = "loop"]
    /\ UNCHANGED <<use_postgres, store, last, upserted, pc, local, run,
                   conns>>

\* KeyboardInterrupt during the sleep or out of run_once: main ends
stopped ==
    /\ proc.pc \in {"sleeping", "interrupted"}
    /\ proc' = [proc EXCEPT !.pc = "exit"]
    /\ UNCHANGED <<use_postgres, store, last, upserted, pc, local, run,
                   conns>>

(***************************************************************************)
(* Selection of the database from the environment: by the writer           *)
(* (DatabaseManager.__init__) and by the read API (resolve_db_config).     *)
(* Both load the same .env file; an environment gives every variable a     *)
(* value or None when the variable is not set.                             *)
(***************************************************************************)
UrlValues ==
    {None, "", "postgres://h/db1", "postgresql://h/db2", "mysql://h/db3"}
PathValues == {None, "", "a.db", "b.db"}
Envs ==
    [DATABASE_PRIVATE_URL : UrlValues, DATABASE_URL : UrlValues,
     DATABASE_PUBLIC_URL : UrlValues, SQLITE_DB_PATH : PathValues,
     DB_PATH : PathValues]

\* val.startswith("postgres://") or val.startswith("postgresql://")
StartsWithPostgres(val) == val \in {"postgres://h/db1", "postgresql://h/db2"}

\* DatabaseManager(): DATABASE_URL when it is a PostgreSQL URL, else the
\* SQLite file os.getenv("DB_PATH", "ggpoker_leaderboards.db"); the
\* default applies only when DB_PATH is not set
DatabaseManagerConfig(env) ==
    IF Truthy(env.DATABASE_URL) /\ StartsWithPostgres(env.DATABASE_URL)
    THEN [driver |-> "postgres", db |-> env.DATABASE_URL]
    ELSE [driver |-> "sqlite",
          db |-> IF env.DB_PATH # None THEN env.DB_PATH
                 ELSE "ggpoker_leaderboards.db"]

\* x or y
Or(x, y) == IF Truthy(x) THEN x ELSE y

\* resolve_db_config(): the first PostgreSQL URL among DATABASE_PRIVATE_URL,
\* DATABASE_URL and DATABASE_PUBLIC_URL; without one the SQLite file of
\* SQLITE_DB_PATH or DB_PATH, else gg_leaderboards.db
resolve_db_config(env) ==
    LET sqlite_path == Or(env.SQLITE_DB_PATH, env.DB_PATH)
        IsPg(val) == Truthy(val) /\ StartsWithPostgres(val)
        pg_url == IF IsPg(env.DATABASE_PRIVATE_URL)
                  THEN env.DATABASE_PRIVATE_URL
                  ELSE IF IsPg(env.DATABASE_URL) THEN env.DATABASE_URL
                  ELSE IF IsPg(env.DATABASE_PUBLIC_URL)
                  THEN env.DATABASE_PUBLIC_URL
                  ELSE None
    IN IF Truthy(sqlite_path) /\ ~Truthy(pg_url)
       THEN [driver |-> "sqlite", db |-> sqlite_path]
       ELSE IF Truthy(pg_url)
       THEN [driver |-> "postgres", db |-> pg_url]
       ELSE [driver |-> "sqlite", db |-> "gg_leaderboards.db"]

\* the scraper constructs its DatabaseManager in the environment
writer_selects ==
    /\ last.op = "env"
    /\ last' = [op |-> "writer", env |-> last.env,
                writer |-> DatabaseManagerConfig(last.env)]
    /\ UNCHANGED <<use_postgres, store, upserted, pc, local, run, conns,
                   proc>>

\* a read of the API resolves its connection in the same environment
reader_selects ==
    /\ last.op = "writer"
    /\ last' = [op |-> "reader", env |-> last.env, writer |-> last.writer,
                reader |-> resolve_db_config(last.env)]
    /\ UNCHANGED <<use_postgres, store, upserted, pc, local, run, conns,
                   proc>>

(***************************************************************************)
(* Specifications                                                          *)
(***************************************************************************)
Init ==
    /\ use_postgres \in BOOLEAN
    /\ EmptyStore
    /\ last = [op |-> "init"]
    /\ upserted = <<>>
    /\ pc = [c \in Callers |-> "idle"]
    /\ local = [c \in Callers |-> [name |-> None, ret |-> 0]]
    /\ run = NoRun
    /\ conns = 0
    /\ proc = NoProc

\* the write side: one DatabaseManager filling the store; a name is resolved
\* when it is first met (SpecIdentity has the repeated calls)
Next ==
    \/ \E name \in LeaderboardNames :
          /\ SelectLeaderboard(leaderboards, name) = {}
          /\ get_or_create_leaderboard_id(name)
          /\ UNCHANGED <<run, conns, proc>>
    \/ \E name \in {"A"} :
          /\ SelectPlayer(players, name) = {}
          /\ get_or_create_player_id(name, None)
          /\ UNCHANGED <<run, conns, proc>>
    \/ \E ts \in BatchTimestamps :
          create_update_batch(ts) /\ UNCHANGED <<run, conns, proc>>
    \/ \E l \in leaderboards, u \in update_batch, p \in players,
          pts \in PointValues :
             insert_fact(l.id, u.id, p.id, pts) /\ UNCHANGED <<run, conns, proc>>

Spec == Init /\ [][Next]_vars

\* identity resolution with every kind of country value
NextIdentity ==
    \/ \E name \in LeaderboardNames :
          get_or_create_leaderboard_id(name) /\ UNCHANGED <<run, conns, proc>>
    \/ \E name \in PlayerNames, country \in Countries :
          get_or_create_player_id(name, country) /\ UNCHANGED <<run, conns, proc>>

SpecIdentity == Init /\ [][NextIdentity]_vars

\* The read API next to the write side.  Both names and both players have
\* been resolved once (a state Spec reaches), so that the reads meet every
\* shape of batches and facts within the bounds.
ReadLeaderboards == {"L1", UnknownLeaderboard}
RowLimits == {-1, 0, 1, 2}
ColumnLimits == {0, 1, 2}

InitRead ==
    /\ use_postgres \in BOOLEAN
    /\ leaderboards = {[id |-> 1, name |-> "L1"], [id |-> 2, name |-> "L2"]}
    /\ players = {[id |-> 1, name |-> "A", country |-> None],
                  [id |-> 2, name |-> "B", country |-> None]}
    /\ update_batch = {}
    /\ facts = {}
    /\ seq = [leaderboards |-> 2, players |-> 2, update_batch |-> 0]
    /\ last = [op |-> "init"]
    /\ upserted = <<>>
    /\ pc = [c \in Callers |-> "idle"]
    /\ local = [c \in Callers |-> [name |-> None, ret |-> 0]]
    /\ run = NoRun
    /\ conns = 0
    /\ proc = NoProc

\* the facts written: any of leaderboard L1, and player A's of L2
FactInputs ==
    {<<l, p, pts>> \in leaderboards \X players \X PointValues :
       l.name = "L1" \/ (p.name = "A" /\ pts = 5)}

\* the leaderboard view next to the write side
NextRead ==
    \/ \E ts \in BatchTimestamps :
          create_update_batch(ts) /\ UNCHANGED <<run, conns, proc>>
    \/ \E i \in FactInputs, u \in update_batch :
          insert_fact(i[1].id, u.id, i[2].id, i[3]) /\ UNCHANGED <<run, conns, proc>>
    \/ \E limit \in RowLimits, last_columns \in ColumnLimits :
          fetch_table_data("L1", limit, last_columns) /\ UNCHANGED <<run, conns, proc>>

SpecRead == InitRead /\ [][NextRead]_vars

\* the three reads, for a known and an unknown leaderboard name
NextReadAll ==
    \/ \E ts \in BatchTimestamps :
          create_update_batch(ts) /\ UNCHANGED <<run, conns, proc>>
    \/ \E i \in FactInputs, u \in update_batch :
          insert_fact(i[1].id, u.id, i[2].id, i[3]) /\ UNCHANGED <<run, conns, proc>>
    \/ \E name \in ReadLeaderboards :
          fetch_table_data(name, 1, 2) /\ UNCHANGED <<run, conns, proc>>
    \/ \E name \in ReadLeaderboards, player \in {"A", UnknownPlayer} :
          fetch_player_data(name, player) /\ UNCHANGED <<run, conns, proc>>
    \/ \E name \in ReadLeaderboards :
          fetch_top_players(name, 2) /\ UNCHANGED <<run, conns, proc>>

SpecReadAll == InitRead /\ [][NextReadAll]_vars

\* the top-players aggregate over batches of several days and times of day
TopLimits == {0, 1, 2}

NextTop ==
    \/ \E ts \in Timestamps :
          create_update_batch(ts) /\ UNCHANGED <<run, conns, proc>>
    \/ \E i \in FactInputs, u \in update_batch :
          insert_fact(i[1].id, u.id, i[2].id, i[3]) /\ UNCHANGED <<run, conns, proc>>
    \/ \E limit \in TopLimits :
          fetch_top_players("L1", limit) /\ UNCHANGED <<run, conns, proc>>

SpecTop == InitRead /\ [][NextTop]_vars

\* one ingestion run on an empty store, next to the readers of the API
NextIngest ==
    \/ \E rows \in RowLists :
          /\ ingest_start("L1", "2024-01-01 07:00", rows)
          /\ UNCHANGED <<conns, proc>>
    \/ ingest_open_batch /\ UNCHANGED <<conns, proc>>
    \/ ingest_row_missing /\ UNCHANGED <<conns, proc>>
    \/ ingest_row_unparseable /\ UNCHANGED <<conns, proc>>
    \/ ingest_row_player /\ UNCHANGED <<conns, proc>>
    \/ ingest_row_fact /\ UNCHANGED <<conns, proc>>
    \/ ingest_row_storage_error /\ UNCHANGED <<conns, proc>>
    \/ ingest_commit /\ UNCHANGED <<conns, proc>>
    \/ ingest_commit_fails /\ UNCHANGED <<conns, proc>>
    \/ ingest_rollback /\ UNCHANGED <<conns, proc>>
    \/ fetch_table_data("L1", 2, 1) /\ UNCHANGED <<run, conns, proc>>
    \/ \E player \in PlayerNames :
          fetch_player_data("L1", player) /\ UNCHANGED <<run, conns, proc>>
    \/ fetch_top_players("L1", 2) /\ UNCHANGED <<run, conns, proc>>

SpecIngest == Init /\ [][NextIngest]_vars

\* deleting a leaderboard next to the write side
NextDelete ==
    \/ \E ts \in BatchTimestamps :
          create_update_batch(ts) /\ UNCHANGED <<run, conns, proc>>
    \/ \E i \in FactInputs, u \in update_batch :
          insert_fact(i[1].id, u.id, i[2].id, i[3]) /\ UNCHANGED <<run, conns, proc>>
    \/ \E name \in LeaderboardNames :
          delete_leaderboard(name) /\ UNCHANGED <<run, conns, proc>>

SpecDelete == InitRead /\ [][NextDelete]_vars

\* the leaderboard view over facts with zero and negative points, the
\* batches differing in timestamp
SortPointValues == {-5, 0, 5}

NextSort ==
    \/ \E ts \in BatchTimestamps :
          /\ \A u \in update_batch : u.ts # ts
          /\ create_update_batch(ts)
          /\ UNCHANGED <<run, conns, proc>>
    \/ \E p \in players, u \in update_batch, pts \in SortPointValues :
          insert_fact(1, u.id, p.id, pts) /\ UNCHANGED <<run, conns, proc>>
    \/ fetch_table_data("L1", 2, 2) /\ UNCHANGED <<run, conns, proc>>

SpecSort == InitRead /\ [][NextSort]_vars

\* the sort key of the remote viewer, for every cell text up to MaxLen
\* characters and the texts of the documented examples
TextChars == {"$", ",", ".", "-", "1", "8", "N"}
MaxLen == 3
CellTexts ==
    UNION {[1..n -> TextChars] : n \in 0..MaxLen}
       \cup {<<"$", "1", ",", "1", "8", "1", ".", "0", "0">>,
             <<"1", ",", "1", "8", "1", ".", "0", "0">>,
             <<"N", "/", "A">>}

InitParse ==
    /\ use_postgres = TRUE
    /\ EmptyStore
    /\ last \in {[op |-> "cell", text |-> t] : t \in CellTexts}
    /\ upserted = <<>>
    /\ pc = [c \in Callers |-> "idle"]
    /\ local = [c \in Callers |-> [name |-> None, ret |-> 0]]
    /\ run = NoRun
    /\ conns = 0
    /\ proc = NoProc

NextParse == \E text \in CellTexts : get_table_data(text)

SpecParse == InitParse /\ [][NextParse]_vars

\* identity resolution called with an empty name next to a proper one
EmptyName == ""

NextEmptyName ==
    \/ \E name \in {EmptyName, "L1"} :
          get_or_create_leaderboard_id(name)
             /\ UNCHANGED <<run, conns, proc>>
    \/ \E name \in {EmptyName, "A"}, country \in Countries :
          get_or_create_player_id(name, country)
             /\ UNCHANGED <<run, conns, proc>>

SpecEmptyName == Init /\ [][NextEmptyName]_vars

\* writer and reader started in every environment
InitEnv ==
    /\ \E env \in Envs :
          /\ last = [op |-> "env", env |-> env]
          /\ use_postgres = (DatabaseManagerConfig(env).driver = "postgres")
    /\ EmptyStore
    /\ upserted = <<>>
    /\ pc = [c \in Callers |-> "idle"]
    /\ local = [c \in Callers |-> [name |-> None, ret |-> 0]]
    /\ run = NoRun
    /\ conns = 0
    /\ proc = NoProc

NextEnv == writer_selects \/ reader_selects

SpecEnv == InitEnv /\ [][NextEnv]_vars

\* The read API as one process next to the write side: player A has a
\* stored country, player B has none (states SpecIdentity reaches).
ApiPlayers == {"A", "B", UnknownPlayer}

InitApi ==
    /\ use_postgres \in BOOLEAN
    /\ leaderboards = {[id |-> 1, name |-> "L1"], [id |-> 2, name |-> "L2"]}
    /\ players = {[id |-> 1, name |-> "A", country |-> "US"],
                  [id |-> 2, name |-> "B", country |-> None]}
    /\ update_batch = {}
    /\ facts = {}
    /\ seq = [leaderboards |-> 2, players |-> 2, update_batch |-> 0]
    /\ last = [op |-> "init"]
    /\ upserted = <<>>
    /\ pc = [c \in Callers |-> "idle"]
    /\ local = [c \in Callers |-> [name |-> None, ret |-> 0]]
    /\ run = NoRun
    /\ conns = 0
    /\ proc = NoProc

NextApi ==
    \/ \E ts \in BatchTimestamps :
          create_update_batch(ts) /\ UNCHANGED <<run, conns, proc>>
    \/ \E i \in FactInputs, u \in update_batch :
          insert_fact(i[1].id, u.id, i[2].id, i[3])
             /\ UNCHANGED <<run, conns, proc>>
    \/ \E prefix \in Prefixes :
          list_tables(prefix) /\ UNCHANGED <<run, conns, proc>>
    \/ \E name \in ReadLeaderboards :
          fetch_table_data(name, 2, 2) /\ UNCHANGED <<run, conns, proc>>
    \/ \E name \in ReadLeaderboards, player \in ApiPlayers :
          fetch_player_data(name, player) /\ UNCHANGED <<run, conns, proc>>
    \/ \E name \in ReadLeaderboards :
          fetch_top_players(name, 2) /\ UNCHANGED <<run, conns, proc>>
    \/ \E op \in ApiOps :
          read_raises(op) /\ UNCHANGED <<run, conns, proc>>

SpecApi == InitApi /\ [][NextApi]_vars

\* the connections of the read API over a sequence of requests, next to a
\* writer that opens batches
NextConn ==
    \/ \E ts \in BatchTimestamps :
          create_update_batch(ts) /\ UNCHANGED <<run, conns, proc>>
    \/ \E prefix \in Prefixes :
          list_tables(prefix) /\ open_connection /\ UNCHANGED <<run, proc>>
    \/ \E name \in ReadLeaderboards :
          fetch_table_data(name, 2, 2) /\ open_connection
             /\ UNCHANGED <<run, proc>>
    \/ \E name \in ReadLeaderboards, player \in ApiPlayers :
          fetch_player_data(name, player) /\ open_connection
             /\ UNCHANGED <<run, proc>>
    \/ \E name \in ReadLeaderboards :
          fetch_top_players(name, 2) /\ open_connection
             /\ UNCHANGED <<run, proc>>
    \/ \E op \in ApiOps :
          read_raises(op) /\ open_connection /\ UNCHANGED <<run, proc>>
    \/ finalize

SpecConn == InitApi /\ [][NextConn]_vars

\* the scraper process: every run scrapes one leaderboard of one row
NextMain ==
    \/ \E interval \in Intervals :
          main(interval)
    \/ \E headless_flag \in BOOLEAN :
          run_once(headless_flag)
    \/ setup_driver
    \/ DatabaseManager
    \/ \E ts \in BatchTimestamps, rows \in SessionRows :
          /\ proc.pc = "session"
          /\ ingest_start("L1", ts, rows)
          /\ UNCHANGED <<conns, proc>>
    \/ proc.pc = "session" /\ ingest_open_batch /\ UNCHANGED <<conns, proc>>
    \/ proc.pc = "session" /\ ingest_row_missing /\ UNCHANGED <<conns, proc>>
    \/ /\ proc.pc = "session"
       /\ ingest_row_unparseable
       /\ UNCHANGED <<conns, proc>>
    \/ proc.pc = "session" /\ ingest_row_player /\ UNCHANGED <<conns, proc>>
    \/ proc.pc = "session" /\ ingest_row_fact /\ UNCHANGED <<conns, proc>>
    \/ /\ proc.pc = "session"
       /\ ingest_row_storage_error
       /\ UNCHANGED <<conns, proc>>
    \/ proc.pc = "session" /\ ingest_commit /\ UNCHANGED <<conns, proc>>
    \/ proc.pc = "session" /\ ingest_commit_fails /\ UNCHANGED <<conns, proc>>
    \/ proc.pc = "session" /\ ingest_rollback /\ UNCHANGED <<conns, proc>>
    \/ session_fails
    \/ session_returns
    \/ session_interrupted
    \/ except_Exception
    \/ finally
    \/ sleep
    \/ wake
    \/ stopped

SpecMain == Init /\ [][NextMain]_vars

(***************************************************************************)
(* get_or_create_leaderboard_id called by several DatabaseManagers, each   *)
(* on its own connection to the same database.  The SQLite path is two     *)
(* statements (SELECT, then INSERT and commit) and other callers run       *)
(* between them; the PostgreSQL path is one statement.                     *)
(***************************************************************************)
\* lines 167-174: dispatch; on SQLite the SELECT and the return of a found id
lb_call(c, name) ==
    /\ pc[c] = "idle"
    /\ IF use_postgres
       THEN LET r == UpsertLeaderboardPg(leaderboards, seq.leaderboards, name)
            IN /\ seq.leaderboards < MaxSeq
               /\ leaderboards' = r.rows
               /\ seq' = [seq EXCEPT !.leaderboards = r.seq]
               /\ pc' = [pc EXCEPT ![c] = IF r.raised THEN "raised"
                                          ELSE "done"]
               /\ local' = [local EXCEPT ![c] = [name |-> name, ret |-> r.id]]
       ELSE LET row == SelectLeaderboard(leaderboards, name)
            IN /\ IF row # {}
                  THEN /\ pc' = [pc EXCEPT ![c] = "done"]
                       /\ local' = [local EXCEPT ![c] =
                                      [name |-> name,
                                       ret |-> (CHOOSE r \in row : TRUE).id]]
                  ELSE /\ pc' = [pc EXCEPT ![c] = "insert"]
                       /\ local' = [local EXCEPT ![c] =
                                      [name |-> name, ret |-> 0]]
               /\ UNCHANGED <<leaderboards, seq>>
    /\ UNCHANGED <<use_postgres, players, update_batch, facts, last,
                   upserted>>

\* lines 175-177: the INSERT, the commit and the return of lastrowid
lb_insert(c) ==
    LET ins == InsertLeaderboard(leaderboards, seq.leaderboards,
                                 local[c].name)
    IN /\ pc[c] = "insert"
       /\ leaderboards' = ins.rows
       /\ seq' = [seq EXCEPT !.leaderboards = ins.seq]
       /\ pc' = [pc EXCEPT ![c] = IF ins.raised THEN "raised" ELSE "done"]
       /\ local' = [local EXCEPT ![c].ret = ins.id]
       /\ UNCHANGED <<use_postgres, players, update_batch, facts, last,
                      upserted>>

\* the caller takes the outcome and is free to call again
lb_return(c) ==
    /\ pc[c] \in {"done", "raised"}
    /\ pc' = [pc EXCEPT ![c] = "idle"]
    /\ local' = [local EXCEPT ![c] = [name |-> None, ret |-> 0]]
    /\ UNCHANGED <<use_postgres, leaderboards, players, update_batch, facts,
                   seq, last, upserted>>

NextConc ==
    \/ \E c \in Callers, name \in LeaderboardNames :
          lb_call(c, name) /\ UNCHANGED <<run, conns, proc>>
    \/ \E c \in Callers : lb_insert(c) /\ UNCHANGED <<run, conns, proc>>
    \/ \E c \in Callers : lb_return(c) /\ UNCHANGED <<run, conns, proc>>

SpecConc == Init /\ [][NextConc]_vars

(***************************************************************************)
(* Properties of the write side                                            *)
(***************************************************************************)
\* C1: the fact store holds at most one row per (leaderboard_id, player_id,
\* update_id); every key ever upserted holds the points of its most recent
\* insert_fact; insert_fact never raises, also on a repeated key.
C1_UpsertOverwrites ==
    /\ \A f, g \in facts : FactKey(f) = FactKey(g) => f = g
    /\ \A k \in DOMAIN upserted :
          {f.points : f \in {g \in facts : FactKey(g) = k}}
             = {upserted[k]}
    /\ last.op = "insert_fact" => ~last.raised

\* C1 witness: insert_fact has just run on a key that had a row
C1_Witness ==
    /\ last.op = "insert_fact"
    /\ last.conflict
    /\ \E f \in facts : FactKey(f) = last.key /\ f.points = last.points

\* C2 as stated: once a player's stored country is not null, no later call
\* changes it.
C2_NonNullCountryKept ==
    [][\A p \in players :
         p.country # None =>
            \E q \in players' : q.name = p.name /\ q.country = p.country]_vars

\* C2 amended: once a player's stored country is neither null nor empty, no
\* later call changes it, whatever country that call supplies; and a call
\* supplying a non-empty country for a player stored without one (null)
\* stores the supplied country.
C2_NonEmptyCountryKept ==
    [][/\ \A p \in players :
            Truthy(p.country) =>
               \E q \in players' :
                  q.id = p.id /\ q.name = p.name /\ q.country = p.country
       /\ \A p \in players :
            (/\ last'.op = "get_or_create_player_id"
             /\ last' # last
             /\ last'.name = p.name
             /\ p.country = None
             /\ Truthy(last'.country))
            => \E q \in players' :
                  q.name = p.name /\ q.country = last'.country]_vars

\* C2 witness: a call supplied another country (or none) for a player whose
\* non-empty country is still the stored one
C2_Witness ==
    /\ last.op = "get_or_create_player_id"
    /\ \E p \in players :
          /\ p.name = last.name
          /\ Truthy(p.country)
          /\ last.country # p.country

\* C3: get_or_create_leaderboard_id creates one row at the first call for a
\* name and returns its id; a later call for the name returns the same id
\* and creates nothing; there is one row per name and no row ever changes.
C3_LeaderboardInsertOrGet ==
    [][/\ \A r \in leaderboards : r \in leaderboards'
       /\ \A r, q \in leaderboards' : (r.name = q.name \/ r.id = q.id) => r = q
       /\ last'.op = "get_or_create_leaderboard_id" =>
            /\ ~last'.raised
            /\ IF \E r \in leaderboards : r.name = last'.name
               THEN /\ leaderboards' = leaderboards
                    /\ \E r \in leaderboards :
                          r.name = last'.name /\ r.id = last'.ret
               ELSE /\ leaderboards' =
                          leaderboards \cup
                             {[id |-> last'.ret, name |-> last'.name]}
                    /\ \A r \in leaderboards : r.id # last'.ret]_vars

\* C3 witness: a call returned the id of a row that is not the newest one,
\* so the name had been resolved before
C3_Witness ==
    /\ last.op = "get_or_create_leaderboard_id"
    /\ \E r, q \in leaderboards :
          r.name = last.name /\ r.id = last.ret /\ q.id > r.id

\* C5: create_update_batch always adds one row, also for a timestamp some
\* batch already carries, and returns an id greater than every earlier one.
C5_BatchAlwaysNewAndIncreasing ==
    [][last'.op = "create_update_batch" =>
         /\ update_batch' =
               update_batch \cup {[id |-> last'.ret, ts |-> last'.ts]}
         /\ \A u \in update_batch : u.id < last'.ret]_vars

\* C5 witness: a batch was opened with the timestamp of an earlier batch
C5_Witness ==
    /\ last.op = "create_update_batch"
    /\ \E u \in update_batch : u.id < last.ret /\ u.ts = last.ts
    /\ \E u \in update_batch : u.id = last.ret /\ u.ts = last.ts

\* C4: when callers interleave get_or_create_leaderboard_id, no call fails
\* with a uniqueness violation, callers that passed the same name hold the
\* same id, and the name has exactly one row.
C4_ConcurrentResolveSafe ==
    /\ \A c \in Callers : pc[c] # "raised"
    /\ \A c, d \in Callers :
          (pc[c] = "done" /\ pc[d] = "done"
             /\ local[c].name = local[d].name)
          => local[c].ret = local[d].ret
    /\ \A c \in Callers :
          pc[c] = "done" =>
             Cardinality(SelectLeaderboard(leaderboards, local[c].name)) = 1

(***************************************************************************)
(* Properties of fetch_table_data                                          *)
(***************************************************************************)
LeaderboardKnown(name) == \E r \in leaderboards : r.name = name

IdOfLeaderboard(name) == (CHOOSE r \in leaderboards : r.name = name).id

\* the batches that carry at least one fact of the leaderboard
BatchesWithFacts(lb_id) ==
    {u \in update_batch :
       \E f \in facts : f.leaderboard_id = lb_id /\ f.update_id = u.id}

\* the n batches of greatest id among S
GreatestIds(S, n) == {u \in S : Cardinality({v \in S : v.id > u.id}) < n}

\* C6: for a known leaderboard the columns are "player" and then the
\* timestamps of the min(last_columns, k) batches of greatest id among the k
\* batches with a fact of that leaderboard, in ascending id order.
C6_ColumnsAreLatestBatchesAscending ==
    (last.op = "fetch_table_data" /\ LeaderboardKnown(last.leaderboard)) =>
       LET K == BatchesWithFacts(IdOfLeaderboard(last.leaderboard))
           sel == GreatestIds(K, last.last_columns)
           cols == last.result.columns
       IN /\ Len(cols) = 1 + Min(last.last_columns, Cardinality(K))
          /\ cols[1] = "player"
          /\ \A u \in sel :
                cols[1 + Cardinality({v \in sel : v.id <= u.id})] = u.ts

\* C6 witness: a view of fewer columns than the leaderboard has batches,
\* which differ in timestamp
C6_Witness ==
    /\ last.op = "fetch_table_data"
    /\ LeaderboardKnown(last.leaderboard)
    /\ last.last_columns >= 1
    /\ Cardinality(BatchesWithFacts(IdOfLeaderboard(last.leaderboard)))
          > last.last_columns
    /\ \E u, v \in BatchesWithFacts(IdOfLeaderboard(last.leaderboard)) :
          u.ts # v.ts
    /\ Len(last.result.columns) = 1 + last.last_columns

\* the points of the fact of that leaderboard, player and batch; 0 without
FactPointsOrZero(lb_id, player_name, update_id) ==
    LET fs == {f \in facts :
                 /\ f.leaderboard_id = lb_id
                 /\ f.update_id = update_id
                 /\ NameOfPlayer(f.player_id) = player_name}
    IN IF fs = {} THEN 0 ELSE (CHOOSE f \in fs : TRUE).points

\* C7: every cell of a returned row is the player's points in the batch of
\* its column (the i-th selected batch in ascending id order), 0 without a
\* fact, whatever timestamps the batches carry.
C7_CellsAreFactPoints ==
    (last.op = "fetch_table_data" /\ LeaderboardKnown(last.leaderboard)) =>
       \A i \in 1..Len(last.result.rows) :
          LET r == last.result.rows[i]
          IN /\ Len(r.values) = Len(last.update_ids)
             /\ \A j \in 1..Len(last.update_ids) :
                   r.values[j] =
                      FactPointsOrZero(IdOfLeaderboard(last.leaderboard),
                                       r.player, last.update_ids[j])

PlayersOf(rows) == {rows[i].player : i \in 1..Len(rows)}

\* C9: for a limit >= 0 at most limit rows are returned, and no row that
\* was built and left out has a greater last value than a returned row.
C9_TruncationAfterRanking ==
    (last.op = "fetch_table_data" /\ last.limit >= 0) =>
       /\ Len(last.result.rows) <= last.limit
       /\ \A i \in 1..Len(last.built), j \in 1..Len(last.result.rows) :
             last.built[i].player \notin PlayersOf(last.result.rows)
                => LastValue(last.built[i])
                      <= LastValue(last.result.rows[j])

\* C9 witness: with limit 1 the second row built, of greater last value, is
\* the one returned
C9_Witness ==
    /\ last.op = "fetch_table_data"
    /\ last.limit = 1
    /\ Len(last.built) = 2
    /\ LastValue(last.built[1]) < LastValue(last.built[2])
    /\ PlayersOf(last.result.rows) = {last.built[2].player}

\* C10: for a leaderboard name that is not in the store no read raises;
\* fetch_table_data returns no columns and no rows, fetch_top_players the
\* empty list, fetch_player_data one row holding only the player name.
C10_UnknownLeaderboardDefaults ==
    (last.op \in {"fetch_table_data", "fetch_player_data",
                  "fetch_top_players"}
       /\ ~LeaderboardKnown(last.leaderboard)) =>
       /\ ~last.raised
       /\ last.op = "fetch_table_data" =>
             last.result = [columns |-> <<>>, rows |-> <<>>]
       /\ last.op = "fetch_top_players" => last.result = <<>>
       /\ last.op = "fetch_player_data" =>
             /\ last.result.rows =
                   <<[player |-> last.player_name, values |-> <<>>]>>
             /\ last.result.columns = <<"player">>

\* C10 witness: a view was asked for an unknown name while the store holds
\* facts
C10_Witness ==
    /\ last.op = "fetch_table_data"
    /\ ~LeaderboardKnown(last.leaderboard)
    /\ facts # {}

(***************************************************************************)
(* Properties of fetch_player_data                                         *)
(***************************************************************************)
\* the position of batch u among the batches S, in ascending id order
RankAscending(S, u) == Cardinality({v \in S : v.id <= u.id})

\* C11: for a known leaderboard fetch_player_data returns one row, the
\* player's name and one value for every batch that has a fact of the
\* leaderboard, in ascending batch id order: the player's points in that
\* batch for that leaderboard, 0 without such a fact (also for a player
\* without facts or without a players row).
C11_HistoryIsAllBatchesAscending ==
    (last.op = "fetch_player_data" /\ LeaderboardKnown(last.leaderboard)) =>
       LET lb_id == IdOfLeaderboard(last.leaderboard)
           K == BatchesWithFacts(lb_id)
           rows == last.result.rows
       IN /\ Len(rows) = 1
          /\ rows[1].player = last.player_name
          /\ Len(rows[1].values) = Cardinality(K)
          /\ Len(last.result.columns) = 1 + Cardinality(K)
          /\ \A u \in K :
                /\ rows[1].values[RankAscending(K, u)] =
                      FactPointsOrZero(lb_id, last.player_name, u.id)
                /\ last.result.columns[1 + RankAscending(K, u)] = u.ts

\* C11 witness: the history of a player who has a fact in the older of two
\* batches of the leaderboard and none in the newer
C11_Witness ==
    /\ last.op = "fetch_player_data"
    /\ LeaderboardKnown(last.leaderboard)
    /\ Cardinality(BatchesWithFacts(IdOfLeaderboard(last.leaderboard))) = 2
    /\ last.result.rows[1].values[1] > 0
    /\ last.result.rows[1].values[2] = 0

(***************************************************************************)
(* Properties of fetch_top_players                                         *)
(***************************************************************************)
\* the daily snapshots of a leaderboard for a cutoff: of the batches with a
\* fact of the leaderboard and a time of day before the cutoff, the one of
\* greatest id on each calendar day
Retained(lb_id, cutoff) ==
    LET early == {u \in BatchesWithFacts(lb_id) : time(u.ts) < cutoff}
    IN {u \in early :
          ~ \E v \in early : date(v.ts) = date(u.ts) /\ v.id > u.id}

\* the players with a fact of the leaderboard in one of the batches S
PlayersIn(S, lb_id) ==
    {NameOfPlayer(f.player_id) :
       f \in {g \in facts :
                 g.leaderboard_id = lb_id
                    /\ \E u \in S : u.id = g.update_id}}

\* C12: the top-players totals count, for the cutoff 08:00, at most one
\* batch a day: the batch of greatest id among that day's batches of the
\* leaderboard before 08:00; a batch at or after 08:00 never counts, so of
\* two batches of a day at 07:00 and 09:00 only the 07:00 batch contributes.
C12_DailySnapshotBeforeCutoff ==
    (last.op = "fetch_top_players" /\ LeaderboardKnown(last.leaderboard)) =>
       LET lb_id == IdOfLeaderboard(last.leaderboard)
           counted == PlayersIn(Retained(lb_id, 8 * 60), lb_id)
       IN /\ \A i \in 1..Len(last.result) : last.result[i] \in counted
          /\ Len(last.result) = Min(last.limit, Cardinality(counted))

\* the sum of a player's points for the leaderboard over the batches S
RECURSIVE TotalOver(_, _, _)
TotalOver(S, lb_id, player_name) ==
    IF S = {} THEN 0
    ELSE LET u == CHOOSE v \in S : TRUE
         IN FactPointsOrZero(lb_id, player_name, u.id)
               + TotalOver(S \ {u}, lb_id, player_name)

GoodRow(row) ==
    row.name # "" /\ row.points # <<>> /\ parseNumeric(row.points).den # 0

\* the players the rows of the run are to have a fact for
GoodNames == {run.rows[j].name : j \in {k \in 1..Len(run.rows) :
                                           GoodRow(run.rows[k])}}

\* the facts of the batch of the run
BatchFacts ==
    {f \in facts : f.update_id = run.update_id
                      /\ f.leaderboard_id = run.leaderboard_id}

\* the players with a fact in the batch of the run
BatchNames == {NameOfPlayer(f.player_id) : f \in BatchFacts}

\* a call of the run raised a storage error, or its commit did
RunFailed ==
    \/ run.pc \in {"rollback", "failed"}
    \/ \E j \in 1..Len(run.outcome) : run.outcome[j] = "failed"

ReadOps == {"fetch_table_data", "fetch_player_data", "fetch_top_players"}

C17_EntryPointContract ==
    (run.pc = "done" /\ ~RunFailed) =>
       /\ run.resolved = 1
       /\ run.opened = 1
       /\ Cardinality(update_batch) = 1
       /\ BatchNames = GoodNames
       /\ Len(run.rows) - run.reported =
             Cardinality({j \in 1..Len(run.rows) : ~GoodRow(run.rows[j])})

(***************************************************************************)
(* Properties of the numeric text parser and of sorting                    *)
(***************************************************************************)
\* two parse outcomes are the same: both no number, or equal numbers
SameNumber(a, b) ==
    IF a.den = 0 \/ b.den = 0 THEN a.den = 0 /\ b.den = 0
    ELSE a.num * b.den = b.num * a.den

\* C18: the number a cell text is sorted by is the decimal value of the
\* text with every character other than digits, '.' and '-' removed, and
\* the text is unparseable when nothing is left or what is left is no valid
\* decimal; "$1,181.00" gives 1181.00, "" and "N/A" are unparseable.
C18_ParseNumericStripsNonNumeric ==
    last.op = "get_table_data" =>
       /\ SameNumber(last.key, parseNumeric(last.text))
       /\ last.text = <<"$", "1", ",", "1", "8", "1", ".", "0", "0">> =>
             SameNumber(last.key, [num |-> 1181, den |-> 1])
       /\ last.text \in {<<>>, <<"N", "/", "A">>} => last.key.den = 0

\* the row's sort value is missing: its player has no fact of the
\* leaderboard in the batch of the last column
SortValueMissing(r) ==
    ~ \E f \in facts :
         /\ f.leaderboard_id = IdOfLeaderboard(last.leaderboard)
         /\ f.update_id = last.update_ids[Len(last.update_ids)]
         /\ NameOfPlayer(f.player_id) = r.player

\* the position of a player's row among the rows as built
BuiltIndex(player) ==
    CHOOSE i \in 1..Len(last.built) : last.built[i].player = player

\* C19: in the rows of a view every row whose sort value is missing comes
\* after every row that has one, and rows with equal sort values keep the
\* order in which they were built.
C19_MissingSortValuesLast ==
    (last.op = "fetch_table_data" /\ Len(last.update_ids) > 0) =>
       LET rows == last.result.rows
       IN \A i, j \in 1..Len(rows) :
             i < j =>
                /\ ~(SortValueMissing(rows[i]) /\ ~SortValueMissing(rows[j]))
                /\ (/\ ~SortValueMissing(rows[i])
                    /\ ~SortValueMissing(rows[j])
                    /\ LastValue(rows[i]) = LastValue(rows[j]))
                   => BuiltIndex(rows[i].player) < BuiltIndex(rows[j].player)

C23_RunsNeverOverlap ==
    [][/\ proc'.pc = "sleeping" =>
             /\ proc.pc = "returned"
             /\ proc'.browser # "running"
             /\ proc'.db # "open"
       /\ proc'.runs # proc.runs =>
             /\ proc'.runs = proc.runs + 1
             /\ proc.pc = "loop"
       /\ (proc'.pc = "loop" /\ proc.pc # "loop") =>
             proc.pc \in {"idle", "sleeping"}
       /\ proc'.interval = 0 => proc'.runs <= 1
       /\ (proc'.pc = "exit" /\ proc'.interval = 0) => proc'.runs = 1]_vars

\* C30: every ingestion run releases what it acquired.  Whenever run_once
\* has been left, by return or by an exception, the browser the run started
\* is quit and the database connection the run opened is closed.
C30_RunReleasesResources ==
    proc.pc \in {"returned", "interrupted", "crashed"} =>
       /\ proc.browser # "running"
       /\ proc.db # "open"

(***************************************************************************)
(* Properties of the read API as a process                                 *)
(***************************************************************************)
\* C21: reads have no side effects on the store.  A step of list_tables,
\* fetch_table_data, fetch_player_data or fetch_top_players, whether it
\* returns a view, answers for a name that is not in the store or raises
\* part-way, leaves leaderboards, players, update_batch and facts (and the
\* id sequences) exactly as they were; no row is created.
C21_ReadsLeaveStoreUnchanged ==
    [][last'.op \in ApiOps => store' = store]_vars

\* C21 witness: a player history has been asked for a player and a
\* leaderboard that are not in the store, while the store holds facts
C21_Witness ==
    /\ last.op = "fetch_player_data"
    /\ ~last.raised
    /\ last.player_name = UnknownPlayer
    /\ last.leaderboard = UnknownLeaderboard
    /\ SelectPlayer(players, UnknownPlayer) = {}
    /\ SelectLeaderboard(leaderboards, UnknownLeaderboard) = {}
    /\ facts # {}

\* C22: every read acquires a connection, executes and releases it at
\* once.  After a read has returned or raised, the connection it opened is
\* closed: the read API holds no open connection after any sequence of
\* completed requests.
C22_ConnectionsReleased ==
    last.op \in ApiOps \cup {"init"} => conns = 0

(***************************************************************************)
(* Properties of identity resolution, second part                          *)
(***************************************************************************)
\* C24: get_or_create_leaderboard_id and get_or_create_player_id signal a
\* data error when the name is empty; the call then creates no row and
\* leaves the store unchanged.
C24_EmptyNameIsDataError ==
    [][(/\ last'.op \in {"get_or_create_leaderboard_id",
                         "get_or_create_player_id"}
        /\ last'.name = EmptyName)
          => (last'.raised /\ store' = store)]_vars

\* C26: get_or_create_player_id updates an empty stored country, on both
\* paths.  When the player exists with a stored country that is NULL or the
\* empty string and the country supplied is neither, the stored country
\* becomes the supplied one; in every other case the stored country is
\* left as it was.
C26_EmptyStoredCountryUpdated ==
    [][(/\ last'.op = "get_or_create_player_id"
        /\ SelectPlayer(players, last'.name) # {})
          => LET old == CHOOSE r \in SelectPlayer(players, last'.name) : TRUE
                 new == CHOOSE r \in SelectPlayer(players', last'.name) : TRUE
             IN new.country =
                   IF (~Truthy(old.country)) /\ Truthy(last'.country)
                   THEN last'.country
                   ELSE old.country]_vars

(***************************************************************************)
(* Properties of the read API, second part                                 *)
(***************************************************************************)
\* res is a list fetch_top_players may return when the retained batches
\* are R: at most limit names of players counted in R, all different, in
\* non-increasing order of total, no omitted player above a listed one
IsTopList(res, R, lb_id, limit) ==
    LET counted == PlayersIn(R, lb_id)
        total(n) == TotalOver(R, lb_id, n)
    IN /\ Len(res) = Min(limit, Cardinality(counted))
       /\ \A i, j \in 1..Len(res) : i # j => res[i] # res[j]
       /\ \A i \in 1..Len(res) : res[i] \in counted
       /\ \A i, j \in 1..Len(res) : i < j => total(res[i]) >= total(res[j])
       /\ \A n \in counted :
             (\A i \in 1..Len(res) : res[i] # n) =>
                \A i \in 1..Len(res) : total(n) <= total(res[i])

\* C25: the two backends satisfy the same contract.  For the same store and
\* the same arguments the SQLite branch and the PostgreSQL branch of
\* fetch_top_players return the same result: a list one branch returns is a
\* list the other branch returns for that store.
C25_BackendsReturnTheSame ==
    (last.op = "fetch_top_players" /\ LeaderboardKnown(last.leaderboard)) =>
       LET lb_id == IdOfLeaderboard(last.leaderboard)
       IN /\ IsTopList(last.result, Retained(lb_id, 21 * 60), lb_id,
                       last.limit)
          /\ IsTopList(last.result, Retained(lb_id, 8 * 60), lb_id,
                       last.limit)

\* C27: fetch_player_data returns the player's country whenever it is
\* known.  For every leaderboard name passed (in the store, not in the
\* store, or without batches) the country of the result is the country
\* stored for the player; it is None only when the player does not exist
\* or has no country stored.
C27_CountryWheneverKnown ==
    (last.op = "fetch_player_data" /\ ~last.raised) =>
       LET row == SelectPlayer(players, last.player_name)
       IN last.result.country =
             IF row = {} THEN None ELSE (CHOOSE r \in row : TRUE).country

\* C28: edge cases of fetch_table_data for a leaderboard that is in the
\* store.  Without any batch the result is columns ["player"] and no rows;
\* with batches none of which carries a fact, rows is empty and columns is
\* "player" followed by the timestamps of the batches (the last_columns
\* latest, in ascending id order).
C28_ViewEdgeCases ==
    (/\ last.op = "fetch_table_data"
     /\ ~last.raised
     /\ LeaderboardKnown(last.leaderboard)) =>
       LET sel == GreatestIds(update_batch, last.last_columns)
           cols == last.result.columns
       IN /\ update_batch = {} =>
                last.result = [columns |-> <<"player">>, rows |-> <<>>]
          /\ (update_batch # {} /\ facts = {}) =>
                /\ last.result.rows = <<>>
                /\ Len(cols) =
                      1 + Min(last.last_columns, Cardinality(update_batch))
                /\ cols[1] = "player"
                /\ \A u \in sel :
                      cols[1 + Cardinality({v \in sel : v.id <= u.id})] = u.ts

(***************************************************************************)
(* Properties of the selection of the database                             *)
(***************************************************************************)
\* C29: writer and reader agree on the store.  For every combination of
\* DATABASE_PRIVATE_URL, DATABASE_URL, DATABASE_PUBLIC_URL, SQLITE_DB_PATH
\* and DB_PATH the DatabaseManager of the ingestion side and the read API
\* select the same kind of backend and the same database.
C29_WriterAndReaderAgree ==
    last.op = "reader" => last.writer = last.reader

====
